---------------------------- MODULE Spec2Model ----------------------------
(***************************************************************************)
(* LabelSampler of torchio (src/torchio/data/sampler/label.py): a          *)
(* rejection sampler that draws random crop windows until the label crop   *)
(* has a positive sum, then crops the whole sample to that window, wrapped *)
(* in an endless generator.                                                *)
(*                                                                         *)
(* Arrays are modelled with a channel axis of length one and two spatial   *)
(* axes; a sample is the sequence of its entries in iteration order.       *)
(* ImageSampler.get_random_indices, ImageSampler.copy_and_crop, crop and   *)
(* is_image_dict are imported by label.py from modules that are not part   *)
(* of the source at hand; they are modelled from their contracts.          *)
(***************************************************************************)
EXTENDS Integers, Sequences, FiniteSets, TLC

(* ------------------------------ bounds --------------------------------- *)
\* largest spatial extent of an image along one axis
MaxExtent == 2
\* largest number of entries of a sample
MaxEntries == 3
\* largest number of voxels of value 1 in a label array
MaxFg == 1
\* largest number of elements the consumer pulls from the generator
MaxPulls == 2
\* largest number of windows an instrumented call asks for
MaxAttempts == 2
\* number of workers that call extract_patch on one sample at the same time
MaxWorkers == 2

(* --------------------------- program constants ------------------------- *)
LABEL == "label"
INTENSITY == "intensity"

\* the spatial axes
Dims == {1, 2}

(* ------------------------------ arrays --------------------------------- *)
Coords(shape) == (0 .. shape[1] - 1) \X (0 .. shape[2] - 1)

\* the value of a local that is not bound yet
NoArray == [shape |-> <<>>, val |-> [c \in {} |-> 0]]
NoIndex == <<>>

RECURSIVE SumOver(_, _)
SumOver(f, S) ==
    IF S = {} THEN 0
    ELSE LET c == CHOOSE x \in S : TRUE IN f[c] + SumOver(f, S \ {c})

\* ndarray.sum()
sum(a) == SumOver(a.val, DOMAIN a.val)

Min(a, b) == IF a < b THEN a ELSE b
Max(a, b) == IF a > b THEN a ELSE b

\* the length of the slice ini:fin of an axis of length n (python slicing
\* clamps both ends to the axis)
SliceLen(ini, fin, n) == Max(0, Min(fin, n) - Min(ini, n))

\* crop(image, index_ini, index_fin): image[..., i_ini:i_fin, j_ini:j_fin]
crop(image, ini, fin) ==
    LET shape == <<SliceLen(ini[1], fin[1], image.shape[1]),
                   SliceLen(ini[2], fin[2], image.shape[2])>>
    IN  [shape |-> shape,
         val |-> [c \in Coords(shape) |->
                     image.val[<<c[1] + ini[1], c[2] + ini[2]>>]]]

(* ------------------------------ samples -------------------------------- *)
ImageEntry(k, t, d) == [key |-> k, kind |-> "image", type |-> t, data |-> d, payload |-> 0]
AuxEntry(k, p) == [key |-> k, kind |-> "aux", type |-> "none", data |-> NoArray, payload |-> p]

\* is_image_dict(value)
is_image_dict(e) == e.kind = "image"

Extents == (1 .. MaxExtent) \X (1 .. MaxExtent)

\* an intensity image: every voxel has its own value
Ramp(shape) == [shape |-> shape,
                val |-> [c \in Coords(shape) |-> 10 * (c[1] + 1) + c[2] + 1]]

Ones(shape) == [shape |-> shape, val |-> [c \in Coords(shape) |-> 1]]

\* a label array: the voxels of P are 1, the voxels of N are -1, the rest 0
LabelArray(shape, P, N) ==
    [shape |-> shape,
     val |-> [c \in Coords(shape) |-> IF c \in P THEN 1 ELSE IF c \in N THEN -1 ELSE 0]]

\* label arrays without negative values and at most one voxel of value 1
PlainLabelArrays(shape) ==
    { LabelArray(shape, P, {}) : P \in { Q \in SUBSET Coords(shape) : Cardinality(Q) <= 1 } }

\* label arrays without negative values and at most MaxFg voxels of value 1
ForegroundLabelArrays(shape) ==
    { LabelArray(shape, P, {}) : P \in { Q \in SUBSET Coords(shape) : Cardinality(Q) <= MaxFg } }

\* label arrays with one voxel of value -1 and at most one of value 1
SignedLabelArrays(shape) ==
    { LabelArray(shape, pn[1], {pn[2]}) :
        pn \in { qm \in (SUBSET Coords(shape)) \X Coords(shape) :
                    Cardinality(qm[1]) <= 1 /\ qm[2] \notin qm[1] } }

LabelArrays(shape) == ForegroundLabelArrays(shape) \cup SignedLabelArrays(shape)

Kinds == {"aux", "int", "lab"}

Layouts == UNION { [1 .. n -> Kinds] : n \in 1 .. MaxEntries }

IsFirstLab(layout, i) == layout[i] = "lab" /\ \A j \in 1 .. (i - 1) : layout[j] # "lab"

\* the sample with the entry kinds of layout: the first label entry holds
\* lab, later label entries are all foreground, intensity entries have the
\* extent ext2
MakeSample(layout, lab, ext2) ==
    [i \in 1 .. Len(layout) |->
        IF layout[i] = "aux" THEN AuxEntry(i, 7)
        ELSE IF layout[i] = "int" THEN ImageEntry(i, INTENSITY, Ramp(ext2))
        ELSE IF IsFirstLab(layout, i) THEN ImageEntry(i, LABEL, lab)
        ELSE ImageEntry(i, LABEL, Ones(lab.shape))]

Grow(ext) == <<ext[1] + 1, ext[2] + 1>>

\* every arrangement of entry kinds, over one extent and plain label arrays
LayoutSamples ==
    { MakeSample(layout, lab, <<MaxExtent, 1>>) :
        layout \in Layouts, lab \in PlainLabelArrays(<<MaxExtent, 1>>) }

\* one arrangement, over every extent and label array
ArraySamples ==
    UNION { { MakeSample(<<"int", "lab", "aux">>, lab, ext) : lab \in LabelArrays(ext) } :
            ext \in Extents }

\* one arrangement whose intensity image is larger than the label image
MismatchSamples ==
    UNION { { MakeSample(<<"int", "lab", "aux">>, lab, Grow(ext)) :
                lab \in PlainLabelArrays(ext) } :
            ext \in Extents }

Samples == LayoutSamples \cup ArraySamples \cup MismatchSamples

ImageShapes(s) == { s[i].data.shape : i \in { j \in 1 .. Len(s) : is_image_dict(s[j]) } }

SameExtent(s) == Cardinality(ImageShapes(s)) <= 1

\* patch sizes that exceed no image entry of the sample
PatchSizes(s) ==
    { p \in Extents : \A sh \in ImageShapes(s) : p[1] <= sh[1] /\ p[2] <= sh[2] }

(* ------------------------- the helpers of the base --------------------- *)
\* the windows of size patch inside an image of the given shape
Windows(shape, patch) ==
    { <<ini, <<ini[1] + patch[1], ini[2] + patch[2]>>>> :
        ini \in (0 .. shape[1] - patch[1]) \X (0 .. shape[2] - patch[2]) }

\* get_random_indices(sample, patch_size): the windows it can return; the
\* extent is read from an image entry of the sample
get_random_indices(s, patch) == UNION { Windows(sh, patch) : sh \in ImageShapes(s) }

\* copy_and_crop(sample, index_ini, index_fin)
copy_and_crop(s, ini, fin) ==
    [i \in 1 .. Len(s) |->
        IF is_image_dict(s[i]) THEN [s[i] EXCEPT !.data = crop(s[i].data, ini, fin)]
        ELSE s[i]]

(* ------------------------- the label locator --------------------------- *)
\* what the locator gives when it raises ValueError
ValueError == [key |-> 0, kind |-> "ValueError", type |-> "none", data |-> NoArray, payload |-> 0]

RECURSIVE FirstLabelFrom(_, _)
FirstLabelFrom(s, i) ==
    IF i > Len(s) THEN ValueError
    ELSE IF ~is_image_dict(s[i]) THEN FirstLabelFrom(s, i + 1)
    ELSE IF s[i].type = LABEL THEN s[i]
    ELSE FirstLabelFrom(s, i + 1)

\* mutant: the type of the image entry is not looked at
RECURSIVE FirstImageFrom(_, _)
FirstImageFrom(s, i) ==
    IF i > Len(s) THEN ValueError
    ELSE IF ~is_image_dict(s[i]) THEN FirstImageFrom(s, i + 1)
    ELSE s[i]

get_first_image_dict(s) == FirstImageFrom(s, 1)

\* mutant: the loop does not break at the first label entry
RECURSIVE LastLabelFrom(_, _, _)
LastLabelFrom(s, i, found) ==
    IF i > Len(s) THEN found
    ELSE IF is_image_dict(s[i]) /\ s[i].type = LABEL THEN LastLabelFrom(s, i + 1, s[i])
    ELSE LastLabelFrom(s, i + 1, found)

get_last_label_image_dict(s) == LastLabelFrom(s, 1, ValueError)

get_first_label_image_dict(s) == FirstLabelFrom(s, 1)

(* ------------------------------ state ---------------------------------- *)
VARIABLES
    sample,            \* the source sample
    patch_size,        \* the requested patch size
    gen,               \* the generator: "none", "created", "running", "suspended", "closed"
    requested,         \* elements the consumer has asked for
    calls,             \* extract_patch calls started
    yielded,           \* elements delivered to the consumer
    signal,            \* what the last pull gave: "none", "value", "ValueError", "StopIteration"
    pc,                \* position of the extract_patch call
    has_label,
    label_image_dict,  \* what the locator returned
    label_image_data,
    index_ini,
    index_fin,
    patch_label,
    cropped_sample,
    draws,             \* TRUE once this call asked get_random_indices for a window
    instrumented,      \* TRUE when the steps of the calls are counted and remembered
    n_locate,          \* runs of the label locator in this call
    n_propose,         \* windows this call asked for
    n_reject,          \* windows this call rejected
    n_crop,            \* crops of the whole sample in this call
    prev_ini,          \* the window of the element delivered before this call
    prev_fin,
    workers            \* the frames of the concurrent calls of extract_patch

vars == <<sample, patch_size, gen, requested, calls, yielded, signal, pc, has_label,
          label_image_dict, label_image_data, index_ini, index_fin, patch_label,
          cropped_sample, draws, instrumented, n_locate, n_propose, n_reject, n_crop,
          prev_ini, prev_fin, workers>>

tally == <<n_locate, n_propose, n_reject, n_crop>>
trace == <<instrumented, n_locate, n_propose, n_reject, n_crop, prev_ini, prev_fin>>

\* an instrumented call counts dl runs of the locator, dp windows asked for,
\* dr windows rejected and dc crops of the sample
Tally(dl, dp, dr, dc) ==
    /\ n_locate' = IF instrumented THEN n_locate + dl ELSE n_locate
    /\ n_propose' = IF instrumented THEN n_propose + dp ELSE n_propose
    /\ n_reject' = IF instrumented THEN n_reject + dr ELSE n_reject
    /\ n_crop' = IF instrumented THEN n_crop + dc ELSE n_crop
    /\ UNCHANGED <<instrumented, prev_ini, prev_fin>>

\* a new call starts counting at zero and remembers the window of the
\* element delivered last
NewTally ==
    /\ n_locate' = 0
    /\ n_propose' = 0
    /\ n_reject' = 0
    /\ n_crop' = 0
    /\ prev_ini' = IF instrumented THEN index_ini ELSE prev_ini
    /\ prev_fin' = IF instrumented THEN index_fin ELSE prev_fin
    /\ UNCHANGED instrumented

input == <<sample, patch_size>>
counters == <<requested, calls, yielded>>
locals == <<has_label, label_image_dict, label_image_data, index_ini, index_fin,
            patch_label, cropped_sample, draws>>

NoSample == <<>>

FreshFrame ==
    /\ has_label' = FALSE
    /\ label_image_dict' = ValueError
    /\ label_image_data' = NoArray
    /\ index_ini' = NoIndex
    /\ index_fin' = NoIndex
    /\ patch_label' = NoArray
    /\ cropped_sample' = NoSample
    /\ draws' = FALSE

\* the state before the generator is created
\* no generator, no call and no frame yet
Idle ==
    /\ gen = "none"
    /\ requested = 0
    /\ calls = 0
    /\ yielded = 0
    /\ signal = "none"
    /\ pc = "idle"
    /\ has_label = FALSE
    /\ label_image_dict = ValueError
    /\ label_image_data = NoArray
    /\ index_ini = NoIndex
    /\ index_fin = NoIndex
    /\ patch_label = NoArray
    /\ cropped_sample = NoSample
    /\ draws = FALSE
    /\ n_locate = 0
    /\ n_propose = 0
    /\ n_reject = 0
    /\ n_crop = 0
    /\ prev_ini = NoIndex
    /\ prev_fin = NoIndex

InitState ==
    /\ sample \in Samples
    /\ patch_size \in PatchSizes(sample)
    /\ Idle

Workers == 1 .. MaxWorkers

\* the frame of a call of extract_patch that has not started
IdleFrame ==
    [pc |-> "idle", has_label |-> FALSE, label_image_data |-> NoArray,
     index_ini |-> NoIndex, index_fin |-> NoIndex, patch_label |-> NoArray,
     cropped_sample |-> NoSample]

NoWorkers == [w \in Workers |-> IdleFrame]

Init == InitState /\ instrumented = FALSE /\ workers = NoWorkers

\* the same with the steps of the calls counted and remembered
TraceInit == InitState /\ instrumented = TRUE /\ workers = NoWorkers

(* ------------------------------ actions -------------------------------- *)
\* mutant: the first patch is extracted when the generator is created
CreateGenerator_Eager ==
    /\ gen = "none"
    /\ gen' = "running"
    /\ calls' = calls + 1
    /\ pc' = "start"
    /\ UNCHANGED <<input, requested, yielded, signal, locals>>
    /\ UNCHANGED trace
    /\ UNCHANGED workers

\* extract_patch_generator(sample, patch_size): calling a generator function
\* runs none of its body
CreateGenerator ==
    /\ gen = "none"
    /\ gen' = "created"
    /\ UNCHANGED <<input, counters, signal, pc, locals>>
    /\ UNCHANGED trace
    /\ UNCHANGED workers

\* the consumer pulls an element: the body runs to line 25 and calls
\* extract_patch
Pull ==
    /\ gen \in {"created", "suspended"}
    /\ requested < MaxPulls
    /\ requested' = requested + 1
    /\ calls' = calls + 1
    /\ gen' = "running"
    /\ signal' = "none"
    /\ pc' = "start"
    /\ FreshFrame
    /\ UNCHANGED <<input, yielded>>
    /\ NewTally
    /\ UNCHANGED workers

\* mutant: the generator catches the ValueError and carries on
Start_SwallowError ==
    /\ pc = "start"
    /\ LET found == get_first_label_image_dict(sample) IN
        /\ label_image_dict' = found
        /\ IF found = ValueError
           THEN /\ pc' = "idle"
                /\ gen' = "suspended"
                /\ signal' = "value"
                /\ label_image_data' = NoArray
           ELSE /\ pc' = "propose"
                /\ label_image_data' = found.data
                /\ UNCHANGED <<gen, signal>>
    /\ has_label' = FALSE
    /\ UNCHANGED <<input, counters, index_ini, index_fin, patch_label, cropped_sample, draws>>
    /\ Tally(1, 0, 0, 0)
    /\ UNCHANGED workers

\* lines 40-41: has_label = False; the locator; ValueError leaves the call
\* and the generator
Start ==
    /\ pc = "start"
    /\ LET found == get_first_label_image_dict(sample) IN
        /\ label_image_dict' = found
        /\ IF found = ValueError
           THEN /\ pc' = "raised"
                /\ gen' = "closed"
                /\ signal' = "ValueError"
                /\ label_image_data' = NoArray
           ELSE /\ pc' = "propose"
                /\ label_image_data' = found.data
                /\ UNCHANGED <<gen, signal>>
    /\ has_label' = FALSE
    /\ UNCHANGED <<input, counters, index_ini, index_fin, patch_label, cropped_sample, draws>>
    /\ Tally(1, 0, 0, 0)
    /\ UNCHANGED workers

\* mutant: the window of the element delivered last is not proposed again
ProposeWindow_NoRepeat(w) ==
    /\ pc = "propose"
    /\ instrumented => n_propose < MaxAttempts
    /\ w \in get_random_indices(sample, patch_size)
    /\ w # <<prev_ini, prev_fin>>
    /\ index_ini' = w[1]
    /\ index_fin' = w[2]
    /\ draws' = TRUE
    /\ pc' = "test"
    /\ UNCHANGED <<input, gen, counters, signal, has_label, label_image_dict,
                   label_image_data, patch_label, cropped_sample>>
    /\ Tally(0, 1, 0, 0)
    /\ UNCHANGED workers

\* mutant: the two indices are unpacked the wrong way round
ProposeWindow_Swapped(w) ==
    /\ pc = "propose"
    /\ instrumented => n_propose < MaxAttempts
    /\ w \in get_random_indices(sample, patch_size)
    /\ index_ini' = w[2]
    /\ index_fin' = w[1]
    /\ draws' = TRUE
    /\ pc' = "test"
    /\ UNCHANGED <<input, gen, counters, signal, has_label, label_image_dict,
                   label_image_data, patch_label, cropped_sample>>
    /\ Tally(0, 1, 0, 0)
    /\ UNCHANGED workers

\* line 43: the random-index generator returns the window w
ProposeWindow(w) ==
    /\ pc = "propose"
    /\ instrumented => n_propose < MaxAttempts
    /\ w \in get_random_indices(sample, patch_size)
    /\ index_ini' = w[1]
    /\ index_fin' = w[2]
    /\ draws' = TRUE
    /\ pc' = "test"
    /\ UNCHANGED <<input, gen, counters, signal, has_label, label_image_dict,
                   label_image_data, patch_label, cropped_sample>>
    /\ Tally(0, 1, 0, 0)
    /\ UNCHANGED workers

\* every window an image of the model can have
AllWindows == UNION { Windows(sh, p) : sh \in Extents \cup { Grow(e) : e \in Extents }, p \in Extents }

\* line 43: a window from the random-index generator
Propose == \E w \in AllWindows : ProposeWindow(w)

\* mutant: the whole sample is cropped to every window that is tested
Test_CropEachAttempt ==
    /\ pc = "test"
    /\ patch_label' = crop(label_image_data, index_ini, index_fin)
    /\ has_label' = (sum(patch_label') > 0)
    /\ pc' = IF has_label' THEN "finish" ELSE "propose"
    /\ cropped_sample' = copy_and_crop(sample, index_ini, index_fin)
    /\ UNCHANGED <<input, gen, counters, signal, label_image_dict, label_image_data,
                   index_ini, index_fin, draws>>
    /\ Tally(0, 0, IF has_label' THEN 0 ELSE 1, 1)
    /\ UNCHANGED workers

\* mutant: a rejected window ends the call with an error
Test_GiveUp ==
    /\ pc = "test"
    /\ patch_label' = crop(label_image_data, index_ini, index_fin)
    /\ has_label' = (sum(patch_label') > 0)
    /\ pc' = IF has_label' THEN "finish" ELSE "raised"
    /\ gen' = IF has_label' THEN gen ELSE "closed"
    /\ signal' = IF has_label' THEN signal ELSE "ValueError"
    /\ UNCHANGED <<input, counters, label_image_dict, label_image_data,
                   index_ini, index_fin, cropped_sample, draws>>
    /\ Tally(0, 0, IF has_label' THEN 0 ELSE 1, 0)
    /\ UNCHANGED workers

\* mutant: the loop body runs once, whatever the label crop holds
Test_AcceptAll ==
    /\ pc = "test"
    /\ patch_label' = crop(label_image_data, index_ini, index_fin)
    /\ has_label' = TRUE
    /\ pc' = "finish"
    /\ UNCHANGED <<input, gen, counters, signal, label_image_dict, label_image_data,
                   index_ini, index_fin, cropped_sample, draws>>
    /\ Tally(0, 0, IF has_label' THEN 0 ELSE 1, 0)
    /\ UNCHANGED workers

\* mutant: sum() >= 0 for sum() > 0
Test_AcceptNonNegative ==
    /\ pc = "test"
    /\ patch_label' = crop(label_image_data, index_ini, index_fin)
    /\ has_label' = (sum(patch_label') >= 0)
    /\ pc' = IF has_label' THEN "finish" ELSE "propose"
    /\ UNCHANGED <<input, gen, counters, signal, label_image_dict, label_image_data,
                   index_ini, index_fin, cropped_sample, draws>>
    /\ Tally(0, 0, IF has_label' THEN 0 ELSE 1, 0)
    /\ UNCHANGED workers

\* mutant: the loop never ends
Test_RejectAll ==
    /\ pc = "test"
    /\ patch_label' = crop(label_image_data, index_ini, index_fin)
    /\ has_label' = FALSE
    /\ pc' = "propose"
    /\ UNCHANGED <<input, gen, counters, signal, label_image_dict, label_image_data,
                   index_ini, index_fin, cropped_sample, draws>>
    /\ Tally(0, 0, IF has_label' THEN 0 ELSE 1, 0)
    /\ UNCHANGED workers

\* lines 44-45 and the loop condition of line 42
Test ==
    /\ pc = "test"
    /\ patch_label' = crop(label_image_data, index_ini, index_fin)
    /\ has_label' = (sum(patch_label') > 0)
    /\ pc' = IF has_label' THEN "finish" ELSE "propose"
    /\ UNCHANGED <<input, gen, counters, signal, label_image_dict, label_image_data,
                   index_ini, index_fin, cropped_sample, draws>>
    /\ Tally(0, 0, IF has_label' THEN 0 ELSE 1, 0)
    /\ UNCHANGED workers

\* mutant: the sample is cropped to a fresh window, not to the accepted one
Finish_FreshWindow ==
    /\ pc = "finish"
    /\ \E w \in get_random_indices(sample, patch_size) :
          cropped_sample' = copy_and_crop(sample, w[1], w[2])
    /\ pc' = "returned"
    /\ UNCHANGED <<input, gen, counters, signal, has_label, label_image_dict,
                   label_image_data, index_ini, index_fin, patch_label, draws>>
    /\ Tally(0, 0, 0, 1)
    /\ UNCHANGED workers

\* mutant: index_ini is passed for index_fin
Finish_IniTwice ==
    /\ pc = "finish"
    /\ cropped_sample' = copy_and_crop(sample, index_ini, index_ini)
    /\ pc' = "returned"
    /\ UNCHANGED <<input, gen, counters, signal, has_label, label_image_dict,
                   label_image_data, index_ini, index_fin, patch_label, draws>>
    /\ Tally(0, 0, 0, 1)
    /\ UNCHANGED workers

\* mutant: the source sample is overwritten with its crop
Finish_InPlace ==
    /\ pc = "finish"
    /\ cropped_sample' = copy_and_crop(sample, index_ini, index_fin)
    /\ sample' = cropped_sample'
    /\ pc' = "returned"
    /\ UNCHANGED <<patch_size, gen, counters, signal, has_label, label_image_dict,
                   label_image_data, index_ini, index_fin, patch_label, draws>>
    /\ Tally(0, 0, 0, 1)
    /\ UNCHANGED workers

\* mutant: only the image entries are returned
Finish_ImagesOnly ==
    /\ pc = "finish"
    /\ cropped_sample' = SelectSeq(copy_and_crop(sample, index_ini, index_fin), is_image_dict)
    /\ pc' = "returned"
    /\ UNCHANGED <<input, gen, counters, signal, has_label, label_image_dict,
                   label_image_data, index_ini, index_fin, patch_label, draws>>
    /\ Tally(0, 0, 0, 1)
    /\ UNCHANGED workers

\* lines 46-51
Finish ==
    /\ pc = "finish"
    /\ cropped_sample' = copy_and_crop(sample, index_ini, index_fin)
    /\ pc' = "returned"
    /\ UNCHANGED <<input, gen, counters, signal, has_label, label_image_dict,
                   label_image_data, index_ini, index_fin, patch_label, draws>>
    /\ Tally(0, 0, 0, 1)
    /\ UNCHANGED workers

\* line 25: the generator hands the returned sample to the consumer
Yield ==
    /\ pc = "returned"
    /\ gen = "running"
    /\ gen' = "suspended"
    /\ yielded' = yielded + 1
    /\ signal' = "value"
    /\ pc' = "idle"
    /\ UNCHANGED <<input, requested, calls, locals>>
    /\ UNCHANGED trace
    /\ UNCHANGED workers

\* a pull from a generator that an exception has ended
PullClosed ==
    /\ gen = "closed"
    /\ requested < MaxPulls
    /\ requested' = requested + 1
    /\ signal' = "StopIteration"
    /\ UNCHANGED <<input, gen, calls, yielded, pc, locals>>
    /\ UNCHANGED trace
    /\ UNCHANGED workers

Next ==
    \/ CreateGenerator
    \/ Pull
    \/ Start
    \/ Propose
    \/ Test
    \/ Finish
    \/ Yield
    \/ PullClosed

Spec == Init /\ [][Next]_vars

TraceSpec == TraceInit /\ [][Next]_vars

(* ------------------- concurrent calls of extract_patch ----------------- *)
\* label arrays of the concurrent calls: no foreground, foreground in the
\* first voxel, foreground on the diagonal
ConcLabelArrays(shape) ==
    { LabelArray(shape, P, {}) :
        P \in { {}, {<<0, 0>>}, { c \in Coords(shape) : c[1] = c[2] } } }

\* extents of the concurrent calls: a column and a square
ConcExtents == { <<MaxExtent, 1>>, <<MaxExtent, MaxExtent>> }

\* samples of the concurrent calls: an intensity, a label and another entry,
\* and a sample without a label entry
ConcSamples ==
    UNION { { MakeSample(<<"int", "lab", "aux">>, lab, ext) : lab \in ConcLabelArrays(ext) } :
            ext \in ConcExtents }
    \cup { MakeSample(<<"int", "aux">>, Ones(<<1, 1>>), <<MaxExtent, MaxExtent>>) }

\* the variables of the generator-driven call
single == <<gen, requested, calls, yielded, signal, pc, has_label, label_image_dict,
            label_image_data, index_ini, index_fin, patch_label, cropped_sample, draws>>

ConcInit ==
    /\ sample \in ConcSamples
    /\ patch_size \in PatchSizes(sample)
    /\ Idle
    /\ instrumented = FALSE
    /\ workers = NoWorkers

\* worker w calls extract_patch(sample, patch_size)
WCall(w) ==
    /\ workers[w].pc = "idle"
    /\ workers' = [workers EXCEPT ![w].pc = "start"]
    /\ UNCHANGED <<input, single, trace>>

\* lines 40-41 in worker w
WStart(w) ==
    /\ workers[w].pc = "start"
    /\ LET found == get_first_label_image_dict(sample) IN
        workers' = [workers EXCEPT ![w] =
            IF found = ValueError
            THEN [@ EXCEPT !.pc = "raised", !.has_label = FALSE]
            ELSE [@ EXCEPT !.pc = "propose", !.has_label = FALSE,
                           !.label_image_data = found.data]]
    /\ UNCHANGED <<input, single, trace>>

\* mutant: the window is kept in an attribute of the sampler, which the
\* workers share
WPropose_SharedWindow(w, win) ==
    /\ workers[w].pc = "propose"
    /\ win \in get_random_indices(sample, patch_size)
    /\ workers' = [v \in Workers |->
                     IF v = w
                     THEN [workers[v] EXCEPT !.pc = "test", !.index_ini = win[1],
                                            !.index_fin = win[2]]
                     ELSE [workers[v] EXCEPT !.index_ini = win[1], !.index_fin = win[2]]]
    /\ UNCHANGED <<input, single, trace>>

\* line 43 in worker w: the random-index generator returns the window win
WPropose(w, win) ==
    /\ workers[w].pc = "propose"
    /\ win \in get_random_indices(sample, patch_size)
    /\ workers' = [workers EXCEPT ![w] =
                     [@ EXCEPT !.pc = "test", !.index_ini = win[1], !.index_fin = win[2]]]
    /\ UNCHANGED <<input, single, trace>>

\* lines 44-45 and the loop condition of line 42 in worker w
WTest(w) ==
    /\ workers[w].pc = "test"
    /\ LET f == workers[w]
           p == crop(f.label_image_data, f.index_ini, f.index_fin)
       IN  workers' = [workers EXCEPT ![w] =
                         [@ EXCEPT !.patch_label = p,
                                   !.has_label = (sum(p) > 0),
                                   !.pc = IF sum(p) > 0 THEN "finish" ELSE "propose"]]
    /\ UNCHANGED <<input, single, trace>>

\* lines 46-51 in worker w
WFinish(w) ==
    /\ workers[w].pc = "finish"
    /\ LET f == workers[w] IN
        workers' = [workers EXCEPT ![w] =
                      [f EXCEPT !.pc = "returned",
                                !.cropped_sample =
                                    copy_and_crop(sample, f.index_ini, f.index_fin)]]
    /\ UNCHANGED <<input, single, trace>>

ConcNext ==
    \E w \in Workers :
        \/ WCall(w)
        \/ WStart(w)
        \/ \E win \in AllWindows : WPropose(w, win)
        \/ WTest(w)
        \/ WFinish(w)

ConcSpec == ConcInit /\ [][ConcNext]_vars

\* every place a window of the model can start at
AllStarts == (0 .. MaxExtent) \X (0 .. MaxExtent)

\* the window of size patch that starts at ini
WindowAt(ini, patch) == <<ini, <<ini[1] + patch[1], ini[2] + patch[2]>>>>

\* the steps of a call are taken, and while the loop runs the random-index
\* generator returns every window it can return again and again
Fairness ==
    /\ WF_vars(Start)
    /\ WF_vars(Propose)
    /\ WF_vars(Test)
    /\ WF_vars(Finish)
    /\ \A ini \in AllStarts :
          []<>(\/ pc \notin {"propose", "test"}
               \/ WindowAt(ini, patch_size) \notin get_random_indices(sample, patch_size)
               \/ (pc = "test" /\ <<index_ini, index_fin>> = WindowAt(ini, patch_size)))

FairSpec == Spec /\ Fairness

(* ------------------------- notions of the claims ----------------------- *)
LabelIndices(s) == { i \in 1 .. Len(s) : s[i].kind = "image" /\ s[i].type = LABEL }

HasLabelEntry(s) == LabelIndices(s) # {}

\* the position of the first label entry in iteration order
FirstLabelIndex(s) == CHOOSE i \in LabelIndices(s) : \A j \in LabelIndices(s) : i <= j

\* the first label entry's array
LabelOf(s) == s[FirstLabelIndex(s)].data

HasPositive(a) == \E c \in DOMAIN a.val : a.val[c] > 0

\* a call of extract_patch is under way
InCall == pc \in {"start", "propose", "test", "finish", "returned"}

(* ------------------------------ claims --------------------------------- *)
\* C1: whenever extract_patch returns, the label array cropped to the window
\* used for the returned sample has a positive sum, so it holds a voxel
\* greater than zero; the label entry of the returned sample is that crop.
C1_ForegroundGuarantee ==
    pc = "returned" =>
        LET i == FirstLabelIndex(sample)
            c == crop(sample[i].data, index_ini, index_fin)
        IN  /\ sum(c) > 0
            /\ HasPositive(c)
            /\ cropped_sample[i].data = c

\* C1 witness: a call returned a window of a label array that also has
\* voxels outside the foreground
C1_Witness ==
    /\ pc = "returned"
    /\ HasLabelEntry(sample)
    /\ \E c \in DOMAIN LabelOf(sample).val : LabelOf(sample).val[c] <= 0
    /\ sum(cropped_sample[FirstLabelIndex(sample)].data) > 0

\* C2: whenever extract_patch returns, every image entry of the returned
\* sample is the crop of its source entry to one window, and that window is
\* the one whose label crop was tested last and passed.
C2_WindowConsistency ==
    pc = "returned" =>
        /\ \A i \in 1 .. Len(sample) :
              sample[i].kind = "image" =>
                  cropped_sample[i].data = crop(sample[i].data, index_ini, index_fin)
        /\ patch_label = crop(LabelOf(sample), index_ini, index_fin)
        /\ has_label
        /\ sum(patch_label) > 0

\* C2 witness: a sample with an intensity and a label entry returned from a
\* window that is not the only one
C2_Witness ==
    /\ pc = "returned"
    /\ \E i, j \in 1 .. Len(sample) :
          /\ sample[i].kind = "image" /\ sample[i].type = INTENSITY
          /\ sample[j].kind = "image" /\ sample[j].type = LABEL
    /\ Cardinality(get_random_indices(sample, patch_size)) > 1
    /\ index_ini # <<0, 0>>

\* C3: on a sample without a label entry a call that has left its first step
\* has raised ValueError, has asked for no window, has produced no cropped
\* sample, and no second call was made.
C3_NoLabelFailure ==
    (~HasLabelEntry(sample) /\ pc \notin {"idle", "start"}) =>
        /\ pc = "raised"
        /\ signal \in {"ValueError", "StopIteration"}
        /\ ~draws
        /\ index_ini = NoIndex /\ index_fin = NoIndex
        /\ cropped_sample = NoSample
        /\ calls = 1
        /\ yielded = 0

\* C3 witness: a sample with image entries but no label entry has failed
C3_Witness ==
    /\ ~HasLabelEntry(sample)
    /\ \E i \in 1 .. Len(sample) : sample[i].kind = "image"
    /\ \E i \in 1 .. Len(sample) : sample[i].kind = "aux"
    /\ pc = "raised"
    /\ signal = "ValueError"

\* C4: once the locator has run, it has returned the first label-typed image
\* entry in iteration order if the sample has one, and it has failed exactly
\* when the sample has none; every call on the sample gives the same entry.
C4_LocatorResult ==
    pc \notin {"idle", "start"} =>
        /\ HasLabelEntry(sample) =>
              /\ label_image_dict = sample[FirstLabelIndex(sample)]
              /\ label_image_data = LabelOf(sample)
              /\ pc # "raised"
        /\ ~HasLabelEntry(sample) => (label_image_dict = ValueError /\ pc = "raised")
        /\ (pc = "raised") <=> ~HasLabelEntry(sample)

\* C4 witness: the locator skipped a non-label entry and chose the first of
\* two label entries, in a second call on the same sample
C4_Witness ==
    /\ pc = "propose"
    /\ calls = 2
    /\ Cardinality(LabelIndices(sample)) >= 2
    /\ FirstLabelIndex(sample) > 1
    /\ label_image_dict.key = FirstLabelIndex(sample)

\* C5: on a sample whose label array has no voxel greater than zero, a call
\* never returns and never fails: it stays in the propose/test loop, which
\* can always take another step.
C5_Livelock ==
    (HasLabelEntry(sample) /\ ~HasPositive(LabelOf(sample))) =>
        /\ pc \in {"idle", "start", "propose", "test"}
        /\ yielded = 0
        /\ signal = "none"
        /\ gen # "closed"
        /\ (pc = "idle" => calls = 0)
        /\ (pc = "propose" => ENABLED Propose)
        /\ (pc = "test" => ENABLED Test)

\* C5 witness: a window of an all-background label array was rejected and the
\* call is about to propose again
C5_Witness ==
    /\ HasLabelEntry(sample)
    /\ ~HasPositive(LabelOf(sample))
    /\ pc = "propose"
    /\ draws
    /\ ~has_label

\* a window the random-index generator can return whose label crop holds a
\* voxel greater than zero
HasForegroundWindow(s, p) ==
    \E w \in get_random_indices(s, p) : HasPositive(crop(LabelOf(s), w[1], w[2]))

\* a window the random-index generator can return whose label crop has a
\* positive sum
HasAcceptableWindow(s, p) ==
    \E w \in get_random_indices(s, p) : sum(crop(LabelOf(s), w[1], w[2])) > 0

\* the label array is zero but for one voxel of value 1
SingleForeground(a) ==
    \E c \in DOMAIN a.val : a.val[c] = 1 /\ \A d \in DOMAIN a.val : d # c => a.val[d] = 0

ForegroundVoxel(a) == CHOOSE c \in DOMAIN a.val : a.val[c] = 1

\* the returned window holds the single foreground voxel and the label crop
\* sums to 1
SingleVoxelReturned ==
    (pc = "returned" /\ SingleForeground(LabelOf(sample))) =>
        LET v == ForegroundVoxel(LabelOf(sample)) IN
        /\ \A d \in Dims : index_ini[d] <= v[d] /\ v[d] < index_fin[d]
        /\ sum(crop(LabelOf(sample), index_ini, index_fin)) = 1

\* C6 as stated: with a window that holds a voxel greater than zero, every
\* call eventually returns (and the single-voxel scenario returns that voxel)
C6_Original ==
    /\ (InCall /\ HasLabelEntry(sample) /\ HasForegroundWindow(sample, patch_size))
          ~> (pc = "returned")
    /\ []SingleVoxelReturned

\* C6 amended: with a window whose label crop has a positive sum, and a
\* random-index generator that returns every window again and again, every
\* call eventually returns; in the single-foreground-voxel scenario the
\* returned window holds that voxel and the label crop sums to exactly 1.
C6_EventualAcceptance ==
    /\ (InCall /\ HasLabelEntry(sample) /\ HasAcceptableWindow(sample, patch_size))
          ~> (pc = "returned")
    /\ []SingleVoxelReturned

\* C6 witness: in the single-foreground-voxel scenario a call returned
\* although some window misses the voxel
C6_Witness ==
    /\ pc = "returned"
    /\ SingleForeground(LabelOf(sample))
    /\ \E w \in get_random_indices(sample, patch_size) :
          sum(crop(LabelOf(sample), w[1], w[2])) = 0
    /\ sum(patch_label) = 1

\* the extent all image entries of a sample share
ExtentOf(s) == CHOOSE sh \in ImageShapes(s) : TRUE

\* C7: for image entries of one spatial extent and a patch size within it,
\* the window of every returned sample starts at or after 0, ends patch_size
\* later and within the extent on every axis, and every image entry of the
\* returned sample has spatial shape patch_size.
C7_ShapeGuarantee ==
    (pc = "returned" /\ SameExtent(sample)) =>
        /\ \A d \in Dims :
              /\ 0 <= index_ini[d]
              /\ index_fin[d] = index_ini[d] + patch_size[d]
              /\ index_fin[d] <= ExtentOf(sample)[d]
        /\ \A i \in 1 .. Len(sample) :
              cropped_sample[i].kind = "image" => cropped_sample[i].data.shape = patch_size

\* C7 witness: a returned patch smaller than the images, away from the origin
C7_Witness ==
    /\ pc = "returned"
    /\ SameExtent(sample)
    /\ patch_size # ExtentOf(sample)
    /\ index_ini # <<0, 0>>
    /\ \E i \in 1 .. Len(sample) :
          sample[i].kind = "image" /\ sample[i].type = INTENSITY

\* C8: no step of a call (a rejected attempt, the acceptance, the return, a
\* ValueError) changes the input sample or the patch size.
C8_NonMutation == [][sample' = sample /\ patch_size' = patch_size]_vars

\* C8 witness: a second call on the sample has returned, and the sample is
\* not its own crop
C8_Witness ==
    /\ pc = "returned"
    /\ calls = 2
    /\ cropped_sample # sample
    /\ sample \in Samples

\* C9: a returned sample has the keys of the input sample in the same
\* order; every image entry keeps its type and holds the crop of its data to
\* the accepted window; every other entry is passed through unchanged.
C9_StructurePreserved ==
    pc = "returned" =>
        /\ Len(cropped_sample) = Len(sample)
        /\ \A i \in 1 .. Len(sample) :
              /\ cropped_sample[i].key = sample[i].key
              /\ cropped_sample[i].kind = sample[i].kind
              /\ sample[i].kind = "image" =>
                    /\ cropped_sample[i].type = sample[i].type
                    /\ cropped_sample[i].data = crop(sample[i].data, index_ini, index_fin)
              /\ sample[i].kind # "image" => cropped_sample[i] = sample[i]

\* C9 witness: a sample with an entry that is no image, an intensity and a
\* label entry was returned cropped to less than its extent
C9_Witness ==
    /\ pc = "returned"
    /\ \E i \in 1 .. Len(sample) : sample[i].kind = "aux" /\ cropped_sample[i].payload = 7
    /\ \E i \in 1 .. Len(sample) :
          /\ sample[i].kind = "image" /\ sample[i].type = INTENSITY
          /\ cropped_sample[i].data # sample[i].data

\* C10: on a sample with a label entry the generator never ends on its own
\* and can always be pulled again; no call of extract_patch is started
\* before the first pull or ahead of a pull; every element delivered is the
\* result of one completed call on the sample and patch size.
C10_LazyGenerator ==
    /\ calls <= requested
    /\ (gen \in {"none", "created"} => (calls = 0 /\ pc = "idle" /\ cropped_sample = NoSample))
    /\ HasLabelEntry(sample) =>
          /\ calls = requested
          /\ gen # "closed"
          /\ signal \in {"none", "value"}
          /\ yielded = calls - (IF InCall THEN 1 ELSE 0)
          /\ (gen = "suspended" =>
                /\ signal = "value"
                /\ pc = "idle"
                /\ cropped_sample = copy_and_crop(sample, index_ini, index_fin)
                /\ (requested < MaxPulls => ENABLED Pull))

\* C10 witness: the consumer has received two elements and the generator is
\* suspended, ready for more
C10_Witness ==
    /\ HasLabelEntry(sample)
    /\ gen = "suspended"
    /\ yielded = 2
    /\ calls = 2

\* the array has no negative value
NonNegative(a) == \A c \in DOMAIN a.val : a.val[c] >= 0

\* the label crop of the window the call is about to test
ProposedCrop == crop(LabelOf(sample), index_ini, index_fin)

\* C11: a call is at one of its steps, has returned or has raised; ValueError
\* is raised by the first step only, so a call that has asked for a window
\* never ends in an error, and it returns only from an accepted window.
C11_OutcomeExhaustive ==
    /\ [](pc \in {"idle", "start", "propose", "test", "finish", "returned", "raised"})
    /\ [](draws => (pc \in {"idle", "propose", "test", "finish", "returned"}
                      /\ signal \in {"none", "value"}))
    /\ [][(pc' = "raised" /\ pc # "raised") => (pc = "start" /\ ~draws)]_vars
    /\ [][(pc' = "returned" /\ pc # "returned") =>
              (pc = "finish" /\ has_label /\ sum(ProposedCrop) > 0)]_vars
    /\ [][(pc \in {"propose", "test"}) => (pc' \in {"propose", "test", "finish"})]_vars

\* C11 witness: a call has rejected a window, another window would be
\* accepted, and the call is still looping
C11_Witness ==
    /\ pc = "propose"
    /\ draws
    /\ ~has_label
    /\ HasAcceptableWindow(sample, patch_size)

\* C13: for a label array without negative values the tested window is
\* accepted exactly when its label crop holds a voxel greater than zero, which
\* is exactly when the crop's sum is positive; an all-zero crop is rejected
\* and the call proposes again.
C13_AcceptanceTest ==
    [][(pc = "test" /\ NonNegative(LabelOf(sample))) =>
          /\ HasPositive(ProposedCrop) <=> (sum(ProposedCrop) > 0)
          /\ has_label' <=> HasPositive(ProposedCrop)
          /\ (pc' = "finish") <=> HasPositive(ProposedCrop)
          /\ (pc' = "propose") <=> ~HasPositive(ProposedCrop)]_vars

\* C13 witness: an all-zero window of a label array that has foreground
\* elsewhere was rejected
C13_Witness ==
    /\ pc = "propose"
    /\ draws
    /\ ~has_label
    /\ NonNegative(LabelOf(sample))
    /\ HasPositive(LabelOf(sample))
    /\ patch_label.shape = patch_size
    /\ ~HasPositive(patch_label)

\* C14 as stated: whatever the signs of the label values, a tested window
\* whose label crop holds a voxel greater than zero is accepted
C14_Original ==
    [][(pc = "test" /\ HasPositive(ProposedCrop)) => (pc' = "finish" /\ has_label')]_vars

\* C14 amended: whatever the signs of the label values, a tested window is
\* accepted exactly when the sum of its label crop is positive.
C14_AcceptOnPositiveSum ==
    [][(pc = "test") =>
          /\ has_label' <=> (sum(ProposedCrop) > 0)
          /\ (pc' = "finish") <=> (sum(ProposedCrop) > 0)]_vars

\* C14 witness: a window of a label array with a negative voxel was accepted
C14_Witness ==
    /\ pc = "finish"
    /\ ~NonNegative(LabelOf(sample))
    /\ has_label
    /\ sum(patch_label) > 0

\* the window lies inside an image of the given shape and has the patch size
WindowInside(shape) ==
    \A d \in Dims :
        /\ 0 <= index_ini[d]
        /\ index_fin[d] = index_ini[d] + patch_size[d]
        /\ index_fin[d] <= shape[d]

C16_GeneratorFailure ==
    ~HasLabelEntry(sample) =>
        /\ gen = "created" => (signal = "none" /\ calls = 0 /\ pc = "idle")
        /\ yielded = 0
        /\ calls <= 1
        /\ signal # "value"
        /\ cropped_sample = NoSample
        /\ requested >= 1 =>
              \/ (pc = "start" /\ gen = "running" /\ signal = "none" /\ requested = 1)
              \/ /\ pc = "raised"
                 /\ gen = "closed"
                 /\ calls = 1
                 /\ signal = (IF requested = 1 THEN "ValueError" ELSE "StopIteration")

\* C16 witness: the first pull on a sample of two or more entries, none a
\* label, has failed
C16_Witness ==
    /\ ~HasLabelEntry(sample)
    /\ Len(sample) >= 2
    /\ gen = "closed"
    /\ requested = 1
    /\ signal = "ValueError"

C17_StepOrdering ==
    /\ pc = "start" => (n_locate = 0 /\ n_propose = 0 /\ n_reject = 0 /\ n_crop = 0)
    /\ pc \in {"propose", "test", "finish", "returned", "raised"} => n_locate = 1
    /\ n_propose >= 1 => n_locate = 1
    /\ pc = "raised" => (n_propose = 0 /\ n_crop = 0)
    /\ pc = "propose" => n_propose = n_reject
    /\ pc \in {"test", "finish", "returned"} => (n_propose >= 1 /\ n_propose = n_reject + 1)
    /\ pc \in {"start", "propose", "test", "finish", "raised"} =>
          (n_crop = 0 /\ cropped_sample = NoSample)
    /\ pc = "returned" => (n_crop = 1 /\ has_label)
    /\ gen = "suspended" =>
          (n_locate = 1 /\ n_crop = 1 /\ n_propose = n_reject + 1)

\* C17 witness: a call returned after a rejected window
C17_Witness ==
    /\ pc = "returned"
    /\ n_locate = 1
    /\ n_propose = 2
    /\ n_reject = 1
    /\ n_crop = 1

\* the window worker w asked for last
WindowOf(w) == <<workers[w].index_ini, workers[w].index_fin>>

\* C18: with the steps of the workers interleaved, a step of one worker
\* changes the frame of no other worker and not the sample; the sample a
\* worker returns is cropped to the window this worker tested and accepted,
\* and its label crop has a positive sum.
C18_ConcurrentDraws ==
    /\ [][sample' = sample /\ patch_size' = patch_size]_vars
    /\ [][\A w \in Workers :
            workers'[w] # workers[w] => \A v \in Workers \ {w} : workers'[v] = workers[v]]_vars
    /\ [][\A w \in Workers :
            (workers[w].pc = "test" /\ workers'[w].pc = "finish") =>
                /\ WindowOf(w)' = WindowOf(w)
                /\ workers'[w].patch_label =
                      crop(LabelOf(sample), workers[w].index_ini, workers[w].index_fin)]_vars
    /\ [](\A w \in Workers :
            workers[w].pc = "returned" =>
                LET f == workers[w] IN
                /\ f.has_label
                /\ f.patch_label = crop(LabelOf(sample), f.index_ini, f.index_fin)
                /\ sum(f.patch_label) > 0
                /\ f.cropped_sample = copy_and_crop(sample, f.index_ini, f.index_fin)
                /\ sum(f.cropped_sample[FirstLabelIndex(sample)].data) > 0)

\* C18 witness: two workers have returned different windows of one sample
C18_Witness ==
    /\ workers[1].pc = "returned"
    /\ workers[2].pc = "returned"
    /\ WindowOf(1) # WindowOf(2)
    /\ workers[1].cropped_sample # workers[2].cropped_sample

=============================================================================
